---- MODULE Spec2Model ----
(***************************************************************************)
(* Model of TradePosition (src/src/position_manager.rs): the lifecycle     *)
(* state machine, the fill accounting (increase / decrease / invert /      *)
(* close), the tick counters and the risk engine (cut-loss, take-profit    *)
(* line, trailing stop, expiry) of one trading position.                   *)
(*                                                                         *)
(* Decimal values are fixed-point integers counted in units of             *)
(* 10^-DecimalDigits.  Addition and subtraction are exact; a product or a  *)
(* quotient that needs more fractional digits than DecimalDigits is        *)
(* rounded half-to-even, as rust_decimal does at its maximum scale of 28.  *)
(*                                                                         *)
(* Left out are the fields no operation reads back: id, fund and token     *)
(* names, the time strings, actual_entry_tick, actual_hold_tick, the       *)
(* indicator snapshots, and the log output.  The matches on position_type  *)
(* in the risk engine have arms for Long and Short only, so these are the  *)
(* two sides of the model.                                                 *)
(***************************************************************************)
EXTENDS Integers, Sequences, FiniteSets, TLC

VARIABLES pos, last, nfills, nliq, hist, quote, waited

vars == <<pos, last, nfills, nliq, hist, quote, waited>>

----------------------------------------------------------------------------
(* Bounds of the model *)

DecimalDigits == 2
MaxOrdered == 3
MaxHolding == 1
MaxFills == 2
MaxLiq == 1
MaxHist == 3
MaxTimeout == 2

----------------------------------------------------------------------------
(* rust_decimal::Decimal *)

Unit == 10 ^ DecimalDigits

Dec(n) == n * Unit

Abs(x) == IF x < 0 THEN 0 - x ELSE x

Signum(x) == IF x > 0 THEN Unit ELSE IF x < 0 THEN 0 - Unit ELSE 0

MaxD(a, b) == IF a >= b THEN a ELSE b

MinD(a, b) == IF a <= b THEN a ELSE b

\* n / d for d > 0, rounded to the nearest integer, ties to even
RoundHalfEven(n, d) ==
    LET q == n \div d
        r == n % d
    IN  IF 2 * r < d THEN q
        ELSE IF 2 * r > d THEN q + 1
        ELSE IF q % 2 = 0 THEN q ELSE q + 1

Mul(a, b) == RoundHalfEven(a * b, Unit)

Div(a, b) ==
    IF b > 0 THEN RoundHalfEven(a * Unit, b)
    ELSE RoundHalfEven((0 - a) * Unit, 0 - b)

\* Option<Decimal>: <<>> is None, <<x>> is Some(x)
None == <<>>

Some(x) == <<x>>

IsSome(o) == o # <<>>

Unwrap(o) == o[1]

----------------------------------------------------------------------------
(* PositionType and State *)

PositionType == {"Long", "Short"}

opposite(t) == IF t = "Long" THEN "Short" ELSE "Long"

Opening == [kind |-> "Opening", reason |-> ""]

Open == [kind |-> "Open", reason |-> ""]

Closing(r) == [kind |-> "Closing", reason |-> r]

Closed(r) == [kind |-> "Closed", reason |-> r]

----------------------------------------------------------------------------
(* TradePosition *)

\* TradePosition::new
new(position_type, ordered_amount, max_holding) ==
    [ order_id                 |-> "open-order",
      ordered_price            |-> 0,
      unfilled_amount          |-> ordered_amount,
      state                    |-> Opening,
      tick_count               |-> 0,
      entry_timeout_tick_count |-> 1,
      exit_timeout_tick_count  |-> 1,
      max_holding_tick_count   |-> max_holding,
      average_open_price       |-> 0,
      position_type            |-> position_type,
      take_profit_price        |-> None,
      cut_loss_price           |-> None,
      close_price              |-> 0,
      close_asset_in_usd       |-> 0,
      amount                   |-> 0,
      asset_in_usd             |-> 0,
      pnl                      |-> 0,
      fee                      |-> 0,
      trailing_peak_price      |-> None ]

\* the assertion at the head of update_state
update_state_asserts(p, new_state) == new_state # p.state

\* the tick counter restarted from zero on every entry to Open
update_state_restart(p, new_state) ==
    LET q == IF new_state.kind \in {"Closing", "Open"}
                THEN [p EXCEPT !.tick_count = 0]
             ELSE p
    IN  [q EXCEPT !.state = new_state]

update_state(p, new_state) ==
    LET q == IF new_state.kind = "Closing"
                THEN [p EXCEPT !.tick_count = 0]
             ELSE IF new_state.kind = "Open" /\ p.state.kind = "Opening"
                THEN [p EXCEPT !.tick_count = 0]
             ELSE IF new_state.kind = "Open" /\ p.state.kind = "Closing"
                THEN [p EXCEPT !.tick_count = p.max_holding_tick_count]
             ELSE p
    IN  [q EXCEPT !.state = new_state]

update_amount(p, position_type, amount, asset_in_usd) ==
    IF position_type = "Long"
    THEN [p EXCEPT !.amount = @ + amount, !.asset_in_usd = @ - asset_in_usd]
    ELSE [p EXCEPT !.amount = @ - amount, !.asset_in_usd = @ + asset_in_usd]

\* the fees paid so far taken off the pnl with every realized amount
realize_pnl_net_of_fee(p, pnl) ==
    [p EXCEPT !.pnl = (@ + pnl) - p.fee, !.asset_in_usd = @ - pnl]

realize_pnl(p, pnl) ==
    [p EXCEPT !.pnl = @ + pnl, !.asset_in_usd = @ - pnl]

unrealized_pnl(price, amount, asset_in_usd) ==
    Mul(amount, price) + asset_in_usd

\* every counter-side fill realized on the whole change of the amount
calculate_pnl_for_update_on_fill(p, update_result, prev_amount, close_price, prev_asset_in_usd) ==
    Mul(close_price - p.average_open_price, prev_amount - p.amount)

calculate_pnl_for_update(p, update_result, prev_amount, close_price, prev_asset_in_usd) ==
    IF update_result = "Decreased"
    THEN Mul(close_price - p.average_open_price, prev_amount - p.amount)
    ELSE unrealized_pnl(close_price, prev_amount, prev_asset_in_usd)

update_amount_and_pnl(p, position_type, amount, asset_in_usd, close_price) ==
    LET prev_asset_in_usd == p.asset_in_usd
        prev_amount == p.amount
        p1 == update_amount(p, position_type, amount, asset_in_usd)
        update_result ==
            IF p1.amount = 0 THEN "Closed"
            ELSE IF Signum(prev_amount) # Signum(p1.amount) THEN "Inverted"
            ELSE "Decreased"
        pnl == calculate_pnl_for_update(p1, update_result, prev_amount,
                                        close_price, prev_asset_in_usd)
    IN  [pos |-> realize_pnl(p1, pnl), upd |-> update_result]

\* the reason passed in taken even while a close is pending
delete_target_given(p, reason) == Closed(reason)

\* the state delete() asks update_state for
delete_target(p, reason) ==
    IF p.state = Opening /\ p.amount = 0 THEN Closed(reason)
    ELSE IF p.state.kind = "Closing" THEN Closed(p.state.reason)
    ELSE Closed(reason)

delete(p, close_price, reason) ==
    IF p.state = Opening /\ p.amount = 0
    THEN update_state(p, Closed(reason))
    ELSE LET p1 == update_state(p, delete_target(p, reason))
         IN  [p1 EXCEPT !.close_price = close_price,
                        !.pnl = (p1.pnl + unrealized_pnl(close_price, p1.amount, p1.asset_in_usd))
                                - p1.fee,
                        !.amount = 0,
                        !.asset_in_usd = 0]

\* the plain mean of the old and the new price
weighted_average_unweighted(old_price, current_amount, new_price, amount) ==
    IF current_amount = 0 THEN new_price ELSE Div(old_price + new_price, 2 * Unit)

\* the amount-weighted average increase() blends prices with
weighted_average(old_price, current_amount, new_price, amount) ==
    Div(Mul(old_price, current_amount) + Mul(new_price, amount), current_amount + amount)

increase(p, f) ==
    LET current_amount == Abs(p.amount)
        blend(old_price, new_price) ==
            weighted_average(old_price, current_amount, new_price, f.amount)
        p1 == [p EXCEPT
                 !.average_open_price = blend(p.average_open_price, f.filled_price),
                 !.take_profit_price =
                     IF IsSome(f.take_profit_price)
                     THEN IF IsSome(p.take_profit_price)
                          THEN Some(blend(Unwrap(p.take_profit_price), Unwrap(f.take_profit_price)))
                          ELSE f.take_profit_price
                     ELSE None,
                 !.cut_loss_price =
                     IF IsSome(f.cut_loss_price)
                     THEN IF IsSome(p.cut_loss_price)
                          THEN Some(blend(Unwrap(p.cut_loss_price), Unwrap(f.cut_loss_price)))
                          ELSE f.cut_loss_price
                     ELSE None]
    IN  update_amount(p1, f.position_type, f.amount, f.asset_in_usd)

decrease(p, f) ==
    LET p1 == [p EXCEPT !.close_asset_in_usd = @ + f.asset_in_usd]
        r == update_amount_and_pnl(p1, f.position_type, f.amount, f.asset_in_usd,
                                   f.filled_price)
    IN  IF r.upd = "Closed"
        THEN [pos |-> delete(r.pos, f.filled_price, "CounterTrade"), upd |-> "Closed"]
        ELSE IF r.upd = "Inverted"
        THEN [pos |-> [r.pos EXCEPT !.average_open_price = f.filled_price,
                                    !.take_profit_price = f.take_profit_price,
                                    !.cut_loss_price = f.cut_loss_price,
                                    !.position_type = opposite(r.pos.position_type)],
              upd |-> "Inverted"]
        ELSE [pos |-> r.pos, upd |-> "Decreased"]

\* the order taken as filled by its first fill
is_fully_filled_always(p) == TRUE

\* the order taken as filled while one unit is still open
is_fully_filled_early(p) == p.unfilled_amount <= Dec(1)

\* self.unfilled_amount.is_zero() in on_filled
is_fully_filled(p) == p.unfilled_amount = 0

\* a fill accepted in every state
on_filled_state_ok_any(p) == p.state.kind \in {"Opening", "Open", "Closing", "Closed"}

\* the state check at the head of on_filled
on_filled_state_ok(p) == p.state.kind \in {"Opening", "Open", "Closing"}

on_filled(p, f) ==
    IF ~on_filled_state_ok(p)
    THEN [pos |-> p, ret |-> "Err", upd |-> "None"]
    ELSE LET p1 == IF p.state.kind = "Opening"
                   THEN LET q == [p EXCEPT !.unfilled_amount = @ - f.amount]
                        IN  IF is_fully_filled(q) THEN update_state(q, Open) ELSE q
                   ELSE p
             p2 == [p1 EXCEPT !.fee = @ + f.fee]
             r  == IF p2.position_type = f.position_type
                   THEN [pos |-> increase(p2, f), upd |-> "Increased"]
                   ELSE decrease(p2, f)
         IN  [pos |-> [r.pos EXCEPT !.ordered_price = r.pos.average_open_price],
              ret |-> "Ok", upd |-> r.upd]

on_liquidated(p, close_price, fee, do_liquidate, liquidated_reason) ==
    LET p1 == [p EXCEPT !.fee = @ + fee]
        reason == IF do_liquidate
                  THEN IF IsSome(liquidated_reason)
                       THEN "Liquidated, " \o Unwrap(liquidated_reason)
                       ELSE "Liquidated"
                  ELSE p1.state.reason
    IN  IF ~do_liquidate /\ p1.state.kind # "Closing"
        THEN [pos |-> p1, ret |-> "Err"]
        ELSE IF ~update_state_asserts(p1, delete_target(p1, reason))
        THEN [pos |-> p1, ret |-> "Panic"]
        ELSE [pos |-> delete(p1, close_price, reason), ret |-> "Ok"]

\* a close request refused only while another one is pending
request_close_state_ok_closed(p) == p.state.kind # "Closing"

\* the state check at the head of request_close
request_close_state_ok(p) ==
    \/ p.state.kind = "Opening" /\ p.unfilled_amount # 0
    \/ p.state.kind = "Open"

request_close(p, order_id, reason) ==
    IF ~request_close_state_ok(p)
    THEN [pos |-> p, ret |-> "Err"]
    ELSE [pos |-> update_state([p EXCEPT !.order_id = order_id], Closing(reason)),
          ret |-> "Ok"]

\* an opening order canceled without looking at what it has filled
cancel_discarding(p) ==
    IF p.state.kind = "Opening"
    THEN [pos |-> update_state(p, Closed("Not filled at all")), ret |-> "OpeningCanceled"]
    ELSE IF p.state.kind = "Closing"
    THEN [pos |-> update_state(p, Open), ret |-> "ClosingCanceled"]
    ELSE [pos |-> p, ret |-> "Err"]

cancel(p) ==
    IF p.state.kind = "Opening"
    THEN IF p.amount = 0
         THEN [pos |-> update_state(p, Closed("Not filled at all")), ret |-> "OpeningCanceled"]
         ELSE [pos |-> update_state(p, Open), ret |-> "PartiallyFilled"]
    ELSE IF p.state.kind = "Closing"
    THEN [pos |-> update_state(p, Open), ret |-> "ClosingCanceled"]
    ELSE [pos |-> p, ret |-> "Err"]

ignore(p) ==
    IF ~update_state_asserts(p, Closed("Partially filled"))
    THEN [pos |-> p, ret |-> "Panic"]
    ELSE [pos |-> update_state(p, Closed("Partially filled")), ret |-> "Ok"]

update_counter(p) == [p EXCEPT !.tick_count = @ + 1]

----------------------------------------------------------------------------
(* Risk engine and timeouts *)

\* the whole expected profit given back before the stop
Half_whole == Unit

\* Decimal::new(5, 1)
Half == Unit \div 2

\* the stop taken without asking that the exit is still past the entry price
is_trailing_stop_triggered_unprofitable(p, close_price) ==
    LET open_price == p.average_open_price
        tp_price == Unwrap(p.take_profit_price)
        expected_profit == IF p.position_type = "Long"
                           THEN tp_price - open_price
                           ELSE open_price - tp_price
        trailing_stop_ratio == Mul(Div(expected_profit, open_price), Unit \div 2)
        extreme == Unwrap(p.trailing_peak_price)
    IN  IF ~IsSome(p.take_profit_price) THEN FALSE
        ELSE IF ~IsSome(p.trailing_peak_price) THEN FALSE
        ELSE IF p.position_type = "Long"
        THEN close_price <= Mul(extreme, Unit - trailing_stop_ratio)
        ELSE close_price >= Mul(extreme, Unit + trailing_stop_ratio)

is_trailing_stop_triggered(p, close_price) ==
    LET open_price == p.average_open_price
        tp_price == Unwrap(p.take_profit_price)
        expected_profit == IF p.position_type = "Long"
                           THEN tp_price - open_price
                           ELSE open_price - tp_price
        trailing_stop_ratio == Mul(Div(expected_profit, open_price), Half)
        extreme == Unwrap(p.trailing_peak_price)
    IN  IF ~IsSome(p.take_profit_price) THEN FALSE
        ELSE IF ~IsSome(p.trailing_peak_price) THEN FALSE
        ELSE IF p.position_type = "Long"
        THEN /\ close_price <= Mul(extreme, Unit - trailing_stop_ratio)
             /\ close_price > open_price
        ELSE /\ close_price >= Mul(extreme, Unit + trailing_stop_ratio)
             /\ close_price < open_price

\* the update of trailing_peak_price inside should_take_profit
track_extreme(p, close_price) ==
    LET open_price == p.average_open_price
        tp_price == Unwrap(p.take_profit_price)
        tracked == p.trailing_peak_price
    IN  IF ~IsSome(p.take_profit_price) THEN p
        ELSE IF p.position_type = "Long"
        THEN IF close_price >= tp_price
             THEN [p EXCEPT !.trailing_peak_price =
                      IF IsSome(tracked)
                      THEN Some(MaxD(Unwrap(tracked), close_price))
                      ELSE Some(MaxD(close_price, open_price))]
             ELSE p
        ELSE IF close_price <= tp_price
             THEN [p EXCEPT !.trailing_peak_price =
                      IF IsSome(tracked)
                      THEN Some(MinD(Unwrap(tracked), close_price))
                      ELSE Some(MinD(close_price, open_price))]
             ELSE p

\* profit taken at the take-profit line itself, as a fixed target
should_take_profit_fixed(p, close_price) ==
    IF p.state.kind # "Open"
    THEN [pos |-> p, ret |-> FALSE]
    ELSE LET p1 == track_extreme(p, close_price)
             at_line == /\ IsSome(p.take_profit_price)
                        /\ IF p.position_type = "Long"
                           THEN close_price >= Unwrap(p.take_profit_price)
                           ELSE close_price <= Unwrap(p.take_profit_price)
         IN  [pos |-> p1, ret |-> at_line \/ is_trailing_stop_triggered(p1, close_price)]

\* the extreme tracked and the stop evaluated in every state
should_take_profit_any_state(p, close_price) ==
    LET p1 == track_extreme(p, close_price)
    IN  [pos |-> p1, ret |-> is_trailing_stop_triggered(p1, close_price)]

should_take_profit(p, close_price) ==
    IF p.state.kind # "Open"
    THEN [pos |-> p, ret |-> FALSE]
    ELSE LET p1 == track_extreme(p, close_price)
         IN  [pos |-> p1, ret |-> is_trailing_stop_triggered(p1, close_price)]

\* the cut-loss price itself not yet counted as a loss to cut
should_cut_loss_strict(p, close_price) ==
    IF p.state.kind # "Open" THEN FALSE
    ELSE IF ~IsSome(p.cut_loss_price) THEN FALSE
    ELSE IF p.position_type = "Long"
    THEN close_price < Unwrap(p.cut_loss_price)
    ELSE close_price > Unwrap(p.cut_loss_price)

should_cut_loss(p, close_price) ==
    IF p.state.kind # "Open" THEN FALSE
    ELSE IF ~IsSome(p.cut_loss_price) THEN FALSE
    ELSE IF p.position_type = "Long"
    THEN close_price <= Unwrap(p.cut_loss_price)
    ELSE close_price >= Unwrap(p.cut_loss_price)

should_close(p, close_price) ==
    LET t == should_take_profit(p, close_price)
    IN  IF t.ret THEN [pos |-> t.pos, ret |-> "TakeProfit"]
        ELSE IF should_cut_loss(t.pos, close_price)
        THEN [pos |-> t.pos, ret |-> "CutLoss"]
        ELSE [pos |-> t.pos, ret |-> "None"]

\* the take-profit line alone, without the trailing stop
has_reached_take_profit_line(p, close_price) ==
    /\ IsSome(p.take_profit_price)
    /\ IF p.position_type = "Long"
       THEN close_price >= Unwrap(p.take_profit_price)
       ELSE close_price <= Unwrap(p.take_profit_price)

has_reached_take_profit(p, close_price) ==
    \/ /\ IsSome(p.take_profit_price)
       /\ IF p.position_type = "Long"
          THEN close_price >= Unwrap(p.take_profit_price)
          ELSE close_price <= Unwrap(p.take_profit_price)
    \/ is_trailing_stop_triggered(p, close_price)

should_open_expired(p, close_price) ==
    IF p.state.kind = "Open"
    THEN /\ p.tick_count > p.max_holding_tick_count
         /\ ~has_reached_take_profit(p, close_price)
    ELSE FALSE

\* the order given up on the tick the counter reaches the timeout
should_cancel_order_at_timeout(p) ==
    IF p.state.kind = "Opening" THEN p.tick_count >= p.entry_timeout_tick_count
    ELSE IF p.state.kind = "Closing" THEN p.tick_count >= p.exit_timeout_tick_count
    ELSE FALSE

should_cancel_order(p) ==
    IF p.state.kind = "Opening" THEN p.tick_count > p.entry_timeout_tick_count
    ELSE IF p.state.kind = "Closing" THEN p.tick_count > p.exit_timeout_tick_count
    ELSE FALSE

----------------------------------------------------------------------------
(* Inputs of the calls *)

Prices == {Dec(1), Dec(2), Dec(3)}

Fill(t, pr, a, fe, tp, cl) ==
    [position_type     |-> t,
     filled_price      |-> pr,
     amount            |-> a,
     asset_in_usd      |-> Mul(pr, a),
     fee               |-> fe,
     take_profit_price |-> tp,
     cut_loss_price    |-> cl]

\* take-profit and cut-loss prices an order of side t is placed with
TakeProfitOf(t) == IF t = "Long" THEN Some(Dec(3)) ELSE Some(Dec(1))

CutLossOf(t) == IF t = "Long" THEN Some(Dec(1)) ELSE Some(Dec(3))

\* fill events of the lifecycle specification: the notional is price x amount
Fills ==
    {Fill(t, Dec(2), a, Dec(1), IF th THEN TakeProfitOf(t) ELSE None,
          IF th THEN CutLossOf(t) ELSE None) :
        t \in PositionType, a \in {Dec(1), Dec(2)}, th \in BOOLEAN}

\* fill events of the accounting specification, without thresholds
PlainFills ==
    {Fill(t, pr, a, fe, None, None) :
        t \in PositionType, pr \in Prices, a \in {Dec(1), Dec(2)},
        fe \in {0, Dec(1)}}

CloseReasons == {"Expired"}

LiquidatedReasons == {None, Some("margin")}

----------------------------------------------------------------------------
(* The position driven by its owner, one call at a time.  A call that      *)
(* aborts on the assertion of update_state ends the run.                   *)

\* the last call: its name, its result, what a fill did to the amount (or
\* whether a liquidation notice asked to liquidate), and the state it was made in
Call(op, ret, upd) == [op |-> op, ret |-> ret, upd |-> upd, from |-> pos.state.kind]

Running == last.ret # "Panic"

\* an order of the position is waiting to be filled
OrderPending(p) == p.state.kind \in {"Opening", "Closing"}

\* waited counts the update_counter calls made since the position entered the
\* state its order is pending in: a call that changes the state starts the
\* count again
StateKept == waited' = IF pos'.state = pos.state THEN waited ELSE 0

\* the position right after construction
Fresh == new("Long", Dec(MaxOrdered), MaxHolding)

Init ==
    /\ pos = Fresh
    /\ last = [op |-> "new", ret |-> "Ok", upd |-> "None", from |-> "Opening"]
    /\ nfills = 0
    /\ nliq = 0
    /\ hist = <<>>
    /\ quote = 0
    /\ waited = 0

OnFilledCall(f) ==
    /\ Running
    /\ LET r == on_filled(pos, f)
       IN  /\ pos' = r.pos
           /\ last' = Call("on_filled", r.ret, r.upd)
           /\ nfills' = IF r.ret = "Ok" THEN nfills + 1 ELSE nfills
    /\ StateKept
    /\ UNCHANGED <<nliq, quote>>

OnFilled ==
    /\ nfills < MaxFills \/ ~on_filled_state_ok(pos)
    /\ \E f \in Fills : OnFilledCall(f)
    /\ UNCHANGED hist

OnLiquidated ==
    /\ Running
    /\ nliq < MaxLiq
    /\ \E cp \in {Dec(3)}, fe \in {Dec(1)}, dl \in BOOLEAN, lr \in LiquidatedReasons :
           LET r == on_liquidated(pos, cp, fe, dl, lr)
           IN  /\ pos' = r.pos
               /\ last' = Call("on_liquidated", r.ret,
                                IF dl THEN "Liquidate" ELSE "None")
    /\ nliq' = nliq + 1
    /\ StateKept
    /\ UNCHANGED <<nfills, hist, quote>>

RequestClose ==
    /\ Running
    /\ \E reason \in CloseReasons :
           LET r == request_close(pos, "close-order", reason)
           IN  /\ pos' = r.pos
               /\ last' = Call("request_close", r.ret, "None")
    /\ StateKept
    /\ UNCHANGED <<nfills, nliq, hist, quote>>

Cancel ==
    /\ Running
    /\ LET r == cancel(pos)
       IN  /\ pos' = r.pos
           /\ last' = Call("cancel", r.ret, "None")
    /\ StateKept
    /\ UNCHANGED <<nfills, nliq, hist, quote>>

Ignore ==
    /\ Running
    /\ LET r == ignore(pos)
       IN  /\ pos' = r.pos
           /\ last' = Call("ignore", r.ret, "None")
    /\ StateKept
    /\ UNCHANGED <<nfills, nliq, hist, quote>>

UpdateCounter ==
    /\ Running
    /\ pos.tick_count <= MaxHolding
    /\ pos' = update_counter(pos)
    /\ last' = Call("update_counter", "Ok", "None")
    /\ waited' = IF OrderPending(pos) THEN waited + 1 ELSE waited
    /\ UNCHANGED <<nfills, nliq, hist, quote>>

ShouldClose ==
    /\ Running
    /\ \E cp \in Prices :
           LET r == should_close(pos, cp)
           IN  /\ pos' = r.pos
               /\ last' = Call("should_close", r.ret, "None")
    /\ StateKept
    /\ UNCHANGED <<nfills, nliq, hist, quote>>

ShouldOpenExpired ==
    /\ Running
    /\ \E cp \in Prices :
           last' = Call("should_open_expired",
                        IF should_open_expired(pos, cp) THEN "true" ELSE "false", "None")
    /\ UNCHANGED <<pos, waited, nfills, nliq, hist, quote>>

Next ==
    \/ OnFilled
    \/ OnLiquidated
    \/ RequestClose
    \/ Cancel
    \/ Ignore
    \/ UpdateCounter
    \/ ShouldClose
    \/ ShouldOpenExpired

Spec == Init /\ [][Next]_vars

----------------------------------------------------------------------------
(* Fill accounting alone: a fresh position receives a recorded sequence of *)
(* fills until it is closed.                                               *)

FillRecorded ==
    /\ Len(hist) < MaxHist
    /\ on_filled_state_ok(pos)
    /\ \E f \in PlainFills :
           /\ OnFilledCall(f)
           /\ hist' = Append(hist, f)

SpecFills == Init /\ [][FillRecorded]_vars

----------------------------------------------------------------------------
(* Thresholds under fills: a fresh position receives a recorded sequence   *)
(* of fills that carry, or do not carry, take-profit and cut-loss prices.  *)

\* fill events with or without thresholds, buys at one price and sells at
\* another, each charged a fee
ThresholdFills ==
    {Fill(t, IF t = "Long" THEN Dec(2) ELSE Dec(3), a, Dec(1), tp, cl) :
        t \in PositionType, a \in {Dec(1), Dec(2)},
        tp \in {None, Some(Dec(3)), Some(Dec(4))},
        cl \in {None, Some(Dec(1))}}

ThresholdFillRecorded ==
    /\ Len(hist) < MaxHist
    /\ on_filled_state_ok(pos)
    /\ \E f \in ThresholdFills :
           /\ OnFilledCall(f)
           /\ hist' = Append(hist, f)

SpecThresholds == Init /\ [][ThresholdFillRecorded]_vars

----------------------------------------------------------------------------
(* Order timeouts: a position constructed with its entry and exit timeouts *)
(* is ticked by its owner, who calls update_counter once per tick and asks *)
(* should_cancel_order, while fills, close requests and cancellations      *)
(* arrive.                                                                 *)

\* the orders placed, with the timeouts given to new()
TimeoutOrders ==
    {[Fresh EXCEPT !.entry_timeout_tick_count = e, !.exit_timeout_tick_count = x] :
        e \in 0..MaxTimeout, x \in 0..MaxTimeout}

InitTimeout ==
    /\ pos \in TimeoutOrders
    /\ last = [op |-> "new", ret |-> "Ok", upd |-> "None", from |-> "Opening"]
    /\ nfills = 0
    /\ nliq = 0
    /\ hist = <<>>
    /\ quote = 0
    /\ waited = 0

\* one tick: the owner calls update_counter
Tick ==
    /\ Running
    /\ pos.tick_count <= MaxTimeout + 1
    /\ pos' = update_counter(pos)
    /\ last' = Call("update_counter", "Ok", "None")
    /\ waited' = IF OrderPending(pos) THEN waited + 1 ELSE waited
    /\ UNCHANGED <<nfills, nliq, hist, quote>>

ShouldCancelOrder ==
    /\ Running
    /\ last' = Call("should_cancel_order",
                    IF should_cancel_order(pos) THEN "true" ELSE "false", "None")
    /\ UNCHANGED <<pos, waited, nfills, nliq, hist, quote>>

NextTimeout ==
    \/ Tick
    \/ ShouldCancelOrder
    \/ OnFilled
    \/ RequestClose
    \/ Cancel

\* the owner's loop runs on every tick, so a tick is never put off for ever
SpecTimeout == InitTimeout /\ [][NextTimeout]_vars /\ WF_vars(Tick)

----------------------------------------------------------------------------
(* Claims *)

\* C1: a call made in a state that does not permit it returns Err and changes
\* no field of the position: on_filled on Closed, request_close on Closing or
\* Closed, cancel on Open or Closed.
C1_IllegalCallChangesNothing ==
    [][/\ (last'.op = "on_filled" /\ pos.state.kind = "Closed")
            => (last'.ret = "Err" /\ pos' = pos)
       /\ (last'.op = "request_close" /\ pos.state.kind \in {"Closing", "Closed"})
            => (last'.ret = "Err" /\ pos' = pos)
       /\ (last'.op = "cancel" /\ pos.state.kind \in {"Open", "Closed"})
            => (last'.ret = "Err" /\ pos' = pos)]_vars

\* a fill was rejected on a position closed after it had been filled
C1_Witness ==
    /\ last.op = "on_filled"
    /\ last.ret = "Err"
    /\ last.from = "Closed"
    /\ nfills > 0

\* C2: Closed is terminal: once the state is Closed(reason) no call changes
\* the state, its reason, the realized pnl, the amount or the notional.
C2_ClosedIsTerminal ==
    [][pos.state.kind = "Closed"
         => /\ pos'.state = pos.state
            /\ pos'.pnl = pos.pnl
            /\ pos'.amount = pos.amount
            /\ pos'.asset_in_usd = pos.asset_in_usd]_vars

----------------------------------------------------------------------------
(* The recorded fills replayed on a fresh position *)

RECURSIVE Replay(_)
Replay(h) ==
    IF h = <<>> THEN Fresh
    ELSE on_filled(Replay(SubSeq(h, 1, Len(h) - 1)), h[Len(h)]).pos

\* the signed amount of position p that fill f closes
ClosedAmount(p, f) ==
    IF f.position_type = p.position_type \/ ~on_filled_state_ok(p) THEN 0
    ELSE IF p.amount > 0 THEN MinD(f.amount, p.amount)
    ELSE 0 - MinD(f.amount, 0 - p.amount)

\* sum over the position-reducing fills of
\* (fill price - average open price at that time) x signed closed amount
RECURSIVE RealizedSum(_)
RealizedSum(h) ==
    IF h = <<>> THEN 0
    ELSE LET h0 == SubSeq(h, 1, Len(h) - 1)
             p == Replay(h0)
             f == h[Len(h)]
         IN  RealizedSum(h0) + Mul(f.filled_price - p.average_open_price, ClosedAmount(p, f))

RECURSIVE FeeSum(_)
FeeSum(h) ==
    IF h = <<>> THEN 0 ELSE FeeSum(SubSeq(h, 1, Len(h) - 1)) + h[Len(h)].fee

RECURSIVE FilledSum(_)
FilledSum(h) ==
    IF h = <<>> THEN 0 ELSE FilledSum(SubSeq(h, 1, Len(h) - 1)) + h[Len(h)].amount

\* fill i of h split into a fill of a1 and a fill of the rest, at the same price
SplitAt(h, i, a1) ==
    LET f == h[i]
        first == [f EXCEPT !.amount = a1, !.asset_in_usd = Mul(f.filled_price, a1)]
        rest  == [f EXCEPT !.amount = f.amount - a1,
                           !.asset_in_usd = Mul(f.filled_price, f.amount - a1),
                           !.fee = 0]
    IN  SubSeq(h, 1, i - 1) \o <<first, rest>> \o SubSeq(h, i + 1, Len(h))

AllSameSide(h) == \A i \in 1..Len(h) : h[i].position_type = Fresh.position_type

\* how many fills of h took the position from Opening to Open
OpenTransitions(h) ==
    Cardinality({i \in 1..Len(h) :
                    /\ Replay(SubSeq(h, 1, i - 1)).state = Opening
                    /\ Replay(SubSeq(h, 1, i)).state = Open})

\* C3: PnL conservation: when a sequence of fills on a fresh position ends with
\* the fill that nets the amount to zero, the realized pnl is the sum over the
\* reducing fills of (fill price - average open price) x closed amount minus
\* all fees, and splitting a fill in two at the same price gives the same pnl.
C3_PnlConservation ==
    (pos.state.kind = "Closed" /\ hist # <<>>)
        => /\ pos.pnl = RealizedSum(hist) - FeeSum(hist)
           /\ \A i \in 1..Len(hist) :
                  hist[i].amount > Dec(1)
                      => Replay(SplitAt(hist, i, Dec(1))).pnl = pos.pnl

\* C4: inversion: a Long position of A > 0 whose notional matches its average
\* price receives a Short fill of B > A at P: then amount = A - B, the side is
\* Short, the average price is P, the state is not Closed and the pnl grew by
\* (P - previous average) x A; symmetric for Short.
C4_Inversion ==
    [][(/\ hist' # hist
        /\ pos.amount # 0
        /\ pos.asset_in_usd = 0 - Mul(pos.average_open_price, pos.amount)
        /\ hist'[Len(hist')].position_type # pos.position_type
        /\ hist'[Len(hist')].amount > Abs(pos.amount))
         => LET f == hist'[Len(hist')]
            IN  /\ pos'.amount = IF pos.position_type = "Long"
                                 THEN pos.amount - f.amount
                                 ELSE pos.amount + f.amount
                /\ Signum(pos'.amount) = 0 - Signum(pos.amount)
                /\ pos'.position_type = opposite(pos.position_type)
                /\ pos'.position_type = IF pos'.amount < 0 THEN "Short" ELSE "Long"
                /\ pos'.average_open_price = f.filled_price
                /\ pos'.state.kind # "Closed"
                /\ pos'.pnl - pos.pnl =
                       Mul(f.filled_price - pos.average_open_price, pos.amount)]_vars

\* a Long position was inverted to Short at a price above its average
C4_Witness ==
    /\ last.op = "on_filled"
    /\ last.upd = "Inverted"
    /\ Len(hist) = 2
    /\ hist[1].position_type = "Long"
    /\ hist[2].filled_price > hist[1].filled_price
    /\ pos.position_type = "Short"
    /\ pos.amount < 0
    /\ pos.pnl > 0

\* C5: two same-side fills (p1,a1), (p2,a2) on an empty position give the
\* average (p1*a1 + p2*a2)/(a1+a2), and the same two fills in the opposite
\* order give the same average, amount and notional.
C5_AverageBlending ==
    (Len(hist) = 2 /\ AllSameSide(hist))
        => LET f1 == hist[1]
               f2 == hist[2]
               swapped == Replay(<<f2, f1>>)
           IN  /\ pos.average_open_price =
                      Div(Mul(f1.filled_price, f1.amount) + Mul(f2.filled_price, f2.amount),
                          f1.amount + f2.amount)
               /\ swapped.average_open_price = pos.average_open_price
               /\ swapped.amount = pos.amount
               /\ swapped.asset_in_usd = pos.asset_in_usd

\* two same-side fills of different prices and amounts
C5_Witness ==
    /\ Len(hist) = 2
    /\ AllSameSide(hist)
    /\ hist[1].filled_price # hist[2].filled_price
    /\ hist[1].amount # hist[2].amount
    /\ pos.amount = hist[1].amount + hist[2].amount

\* C6: in every state where the position is Open, unfilled_amount is zero.
C6_OpenImpliesFullyFilled ==
    pos.state.kind = "Open" => pos.unfilled_amount = 0

\* C6 as amended: on_filled moves a position from Opening to Open only when
\* unfilled_amount has reached zero, and a position is Open with a non-zero
\* unfilled_amount only once cancel() has put it there.
C6_OpenedByFillIsFullyFilled ==
    [][/\ (last'.op = "on_filled" /\ pos.state.kind = "Opening" /\ pos'.state.kind = "Open")
            => pos'.unfilled_amount = 0
       /\ (pos'.state.kind = "Open" /\ pos'.unfilled_amount # 0)
            => \/ last'.op = "cancel"
               \/ pos.state.kind = "Open" /\ pos.unfilled_amount = pos'.unfilled_amount]_vars

\* the last fill of the order opened the position
C6_Witness ==
    /\ last.op = "on_filled"
    /\ last.from = "Opening"
    /\ pos.state.kind = "Open"
    /\ pos.unfilled_amount = 0
    /\ nfills > 1

\* C7: same-side fills summing to the ordered amount N leave the state Opening
\* after every fill but the last, and the last one moves it to Open with
\* unfilled_amount = 0; the transition Opening -> Open happens exactly once.
C7_OpensExactlyOnce ==
    AllSameSide(hist)
        => /\ FilledSum(hist) < Dec(MaxOrdered)
                => (pos.state = Opening /\ OpenTransitions(hist) = 0)
           /\ FilledSum(hist) = Dec(MaxOrdered)
                => /\ pos.state = Open
                   /\ pos.unfilled_amount = 0
                   /\ OpenTransitions(hist) = 1

\* the order filled by two same-side fills
C7_Witness ==
    /\ AllSameSide(hist)
    /\ Len(hist) = 2
    /\ FilledSum(hist) = Dec(MaxOrdered)
    /\ pos.state = Open
    /\ pos.unfilled_amount = 0

\* the transitions between state kinds that C8 allows
Edges ==
    {<<"Opening", "Open">>, <<"Opening", "Closing">>, <<"Opening", "Closed">>,
     <<"Open", "Closing">>, <<"Open", "Closed">>, <<"Closing", "Closed">>,
     <<"Closing", "Open">>}

\* C8: the state kind only moves along Opening->Open, Opening->Closing,
\* Opening->Closed, Open->Closing, Open->Closed, Closing->Closed and the one
\* backward edge Closing->Open: never back to Opening, never out of Closed.
C8_OneDirectional ==
    [][pos'.state.kind # pos.state.kind
         => <<pos.state.kind, pos'.state.kind>> \in Edges]_vars

\* the backward edge: a close of a fully filled position was canceled
C8_Witness ==
    /\ last.op = "cancel"
    /\ last.from = "Closing"
    /\ pos.state.kind = "Open"
    /\ pos.unfilled_amount = 0
    /\ nfills > 0

\* C9: cancel() on a Closing position returns ClosingCanceled, moves it to Open
\* and sets the tick counter to max_holding_tick_count, so should_open_expired
\* is false right after the cancel and true after one more update_counter call
\* at every price at which take-profit is not reached.
C9_CancelClose ==
    [][/\ (last'.op = "cancel" /\ pos.state.kind = "Closing")
            => /\ last'.ret = "ClosingCanceled"
               /\ pos'.state = Open
               /\ pos'.tick_count = pos'.max_holding_tick_count
               /\ pos'.tick_count # 0
               /\ \A cp \in Prices : ~should_open_expired(pos', cp)
               /\ \A cp \in Prices :
                      should_open_expired(update_counter(pos'), cp)
                          <=> ~has_reached_take_profit(pos', cp)
       /\ (last.op = "cancel" /\ last.ret = "ClosingCanceled" /\ last'.op = "update_counter")
            => \A cp \in Prices :
                   should_open_expired(pos', cp) <=> ~has_reached_take_profit(pos', cp)]_vars

\* a close of a position with a take-profit price was canceled after a tick
C9_Witness ==
    /\ last.op = "cancel"
    /\ last.ret = "ClosingCanceled"
    /\ pos.state = Open
    /\ pos.tick_count = pos.max_holding_tick_count
    /\ IsSome(pos.take_profit_price)
    /\ pos.amount # 0

\* C10: cancel() on an Opening position ends in Closed("Not filled at all")
\* with OpeningCanceled only when nothing has been filled; with amount # 0 it
\* moves the position to Open, returns PartiallyFilled and keeps the amount.
C10_CancelOpening ==
    [][(last'.op = "cancel" /\ pos.state.kind = "Opening")
         => IF pos.amount = 0
            THEN /\ nfills = 0
                 /\ last'.ret = "OpeningCanceled"
                 /\ pos'.state = Closed("Not filled at all")
            ELSE /\ nfills > 0
                 /\ last'.ret = "PartiallyFilled"
                 /\ pos'.state = Open
                 /\ pos'.amount = pos.amount
                 /\ pos'.asset_in_usd = pos.asset_in_usd]_vars

\* a partially filled opening order was canceled and its amount is held
C10_Witness ==
    /\ last.op = "cancel"
    /\ last.ret = "PartiallyFilled"
    /\ pos.state = Open
    /\ pos.amount # 0
    /\ pos.unfilled_amount # 0

----------------------------------------------------------------------------
(* The risk engine alone: an order is filled by one fill event that sets   *)
(* the thresholds, and its owner then polls should_close and               *)
(* should_open_expired with quoted prices while ticks pass and a close is  *)
(* requested or canceled.  quote is the price of the last poll.            *)

\* a Decimal with one fractional digit: Decimal::new(n, 1)
Tenths(n) == (n * Unit) \div 10

\* the prices polled: around an entry at 2 and around an entry at 10
RiskPrices ==
    {Dec(1), Tenths(18), Dec(2), Tenths(22), Dec(3), Tenths(112), Tenths(125)}

\* take-profit prices of an order of side t entered at 2: none, on either side
\* of the entry, at it, and for Long a target of more than three times the entry
RiskTakeProfits(t) ==
    {None, Some(Dec(1)), Some(Dec(2)), Some(Dec(3))}
        \cup (IF t = "Long" THEN {Some(Dec(7))} ELSE {})

RiskCutLosses == {None, Some(Dec(1)), Some(Dec(3))}

\* the order of 100 units bought at 10.0 with take-profit 12.0, cut-loss 9.0
ScenarioOrder == new("Long", Dec(100), MaxHolding)

ScenarioFill == Fill("Long", Dec(10), Dec(100), 0, Some(Dec(12)), Some(Dec(9)))

\* the fill events that may answer the opening order p: the whole order or
\* all but one unit of it, at price 2
RiskFills(p) ==
    IF p.unfilled_amount = ScenarioOrder.unfilled_amount
    THEN {ScenarioFill}
    ELSE {Fill(p.position_type, Dec(2), a, 0, tp, cl) :
             a \in {p.unfilled_amount, p.unfilled_amount - Dec(1)},
             tp \in RiskTakeProfits(p.position_type), cl \in RiskCutLosses}

InitRisk ==
    /\ pos \in {new(t, Dec(MaxOrdered), MaxHolding) : t \in PositionType}
                \cup {ScenarioOrder}
    /\ last = [op |-> "new", ret |-> "Ok", upd |-> "None", from |-> "Opening"]
    /\ nfills = 0
    /\ nliq = 0
    /\ hist = <<>>
    /\ quote = 0
    /\ waited = 0

RiskFilled ==
    /\ nfills = 0
    /\ pos.state = Opening
    /\ \E f \in RiskFills(pos) : OnFilledCall(f)
    /\ UNCHANGED hist

RiskShouldClose ==
    /\ Running
    /\ \E cp \in RiskPrices :
           LET r == should_close(pos, cp)
           IN  /\ pos' = r.pos
               /\ last' = Call("should_close", r.ret, "None")
               /\ quote' = cp
    /\ StateKept
    /\ UNCHANGED <<nfills, nliq, hist>>

RiskShouldOpenExpired ==
    /\ Running
    /\ \E cp \in RiskPrices :
           /\ last' = Call("should_open_expired",
                           IF should_open_expired(pos, cp) THEN "true" ELSE "false", "None")
           /\ quote' = cp
    /\ UNCHANGED <<pos, waited, nfills, nliq, hist>>

NextRisk ==
    \/ RiskFilled
    \/ RiskShouldClose
    \/ RiskShouldOpenExpired
    \/ UpdateCounter
    \/ RequestClose
    \/ Cancel

SpecRisk == InitRisk /\ [][NextRisk]_vars

----------------------------------------------------------------------------
(* Claims on thresholds and on the reason of a close *)

\* the threshold a same-side fill of amount a carrying `supplied` leaves, by the
\* rule of C11, on a position of amount `held` whose threshold is `current`
BlendedThreshold(current, held, supplied, a) ==
    IF ~IsSome(current) THEN supplied
    ELSE IF ~IsSome(supplied) THEN current
    ELSE Some(Div(Mul(Unwrap(current), Abs(held)) + Mul(Unwrap(supplied), a),
                  Abs(held) + a))

\* C11: on a same-side fill each of take_profit_price and cut_loss_price stays
\* None when it is None and the fill supplies none, becomes y when it is None
\* and the fill supplies y, becomes the amount-weighted average of x and y when
\* it is Some(x) and the fill supplies y, and is never dropped back to None by
\* a fill that supplies no value.
C11_ThresholdBlending ==
    [][(hist' # hist /\ hist'[Len(hist')].position_type = pos.position_type)
         => LET f == hist'[Len(hist')]
            IN  /\ pos'.take_profit_price =
                       BlendedThreshold(pos.take_profit_price, pos.amount,
                                        f.take_profit_price, f.amount)
                /\ pos'.cut_loss_price =
                       BlendedThreshold(pos.cut_loss_price, pos.amount,
                                        f.cut_loss_price, f.amount)]_vars

\* C12: whenever a position moves from Closing(r) to Closed(x), by any path,
\* x = r; and when a counter-side fill closes a position that is not in
\* Closing, the reason is "CounterTrade".
C12_ReasonInherited ==
    [][/\ (pos.state.kind = "Closing" /\ pos'.state.kind = "Closed")
            => pos'.state.reason = pos.state.reason
       /\ (last'.op = "on_filled" /\ pos.state.kind \in {"Opening", "Open"}
              /\ pos'.state.kind = "Closed")
            => pos'.state.reason = "CounterTrade"]_vars

\* C12 as amended: a position that a counter-side fill or on_liquidated (with
\* do_liquidate false or true) moves from Closing(r) to Closed(x) has x = r; a
\* counter-side fill that closes a position not in Closing gives
\* "CounterTrade"; ignore() closes a Closing position as "Partially filled".
C12_ReasonInheritedByFillOrLiquidation ==
    [][/\ (pos.state.kind = "Closing" /\ pos'.state.kind = "Closed")
            => \/ /\ last'.op \in {"on_filled", "on_liquidated"}
                  /\ pos'.state.reason = pos.state.reason
               \/ /\ last'.op = "ignore"
                  /\ pos'.state.reason = "Partially filled"
       /\ (last'.op = "on_liquidated" /\ last'.ret = "Ok" /\ pos.state.kind = "Closing")
            => pos'.state = Closed(pos.state.reason)
       /\ (last'.op = "on_filled" /\ pos.state.kind \in {"Opening", "Open"}
              /\ pos'.state.kind = "Closed")
            => pos'.state.reason = "CounterTrade"]_vars

\* a liquidation notice closed a position whose close had been requested
C12_Witness ==
    /\ last.op = "on_liquidated"
    /\ last.ret = "Ok"
    /\ last.from = "Closing"
    /\ pos.state = Closed("Expired")
    /\ nfills > 0

----------------------------------------------------------------------------
(* Claims on the risk engine *)

\* 0.5 x (take_profit_price - average_open_price) / average_open_price, the
\* fraction of the extreme given back before the trailing stop (Long)
TrailingRatio(p) ==
    Mul(Tenths(5), Div(Unwrap(p.take_profit_price) - p.average_open_price,
                       p.average_open_price))

\* the same for Short: 0.5 x (average_open_price - take_profit_price) /
\* average_open_price
ShortTrailingRatio(p) ==
    Mul(Tenths(5), Div(p.average_open_price - Unwrap(p.take_profit_price),
                       p.average_open_price))

\* the stop price derived from the recorded extreme:
\* peak x (1 - ratio) for Long, trough x (1 + ratio) for Short
StopPrice(p) ==
    IF p.position_type = "Long"
    THEN Mul(Unwrap(p.trailing_peak_price), Dec(1) - TrailingRatio(p))
    ELSE Mul(Unwrap(p.trailing_peak_price), Dec(1) + ShortTrailingRatio(p))

\* the price is on the losing side of the entry price, or at it
AtOrBehindEntry(p, price) ==
    IF p.position_type = "Long" THEN price <= p.average_open_price
    ELSE price >= p.average_open_price

\* the cut-loss condition of an Open position at a price
CutLossHolds(p, price) ==
    /\ p.state = Open
    /\ IsSome(p.cut_loss_price)
    /\ IF p.position_type = "Long" THEN price <= Unwrap(p.cut_loss_price)
       ELSE price >= Unwrap(p.cut_loss_price)

C14_TrailingMonotone ==
    [][(last'.op = "should_close" /\ pos.state = Open /\ IsSome(pos.trailing_peak_price))
         => /\ IsSome(pos'.trailing_peak_price)
            /\ IF pos.position_type = "Long"
               THEN /\ Unwrap(pos'.trailing_peak_price) >= Unwrap(pos.trailing_peak_price)
                    /\ StopPrice(pos') >= StopPrice(pos)
               ELSE /\ Unwrap(pos'.trailing_peak_price) <= Unwrap(pos.trailing_peak_price)
                    /\ StopPrice(pos') <= StopPrice(pos)]_vars

\* the trailing stop of p is triggered at a price: an extreme is on record, the
\* price has come back to the stop price and is still past the entry price
TrailingStopHit(p, price) ==
    /\ IsSome(p.take_profit_price)
    /\ IsSome(p.trailing_peak_price)
    /\ IF p.position_type = "Long"
       THEN price <= StopPrice(p) /\ price > p.average_open_price
       ELSE price >= StopPrice(p) /\ price < p.average_open_price

AtTakeProfitLine(p, price) ==
    /\ IsSome(p.take_profit_price)
    /\ IF p.position_type = "Long" THEN price >= Unwrap(p.take_profit_price)
       ELSE price <= Unwrap(p.take_profit_price)

\* the take-profit price of p lies on the profit side of its entry price
TakeProfitBeyondEntry(p) ==
    /\ IsSome(p.take_profit_price)
    /\ IF p.position_type = "Long"
       THEN Unwrap(p.take_profit_price) > p.average_open_price
       ELSE Unwrap(p.take_profit_price) < p.average_open_price

\* C16: for an Open Long position with a take-profit price, should_close(price)
\* returns TakeProfit whenever price >= take_profit_price, and for an Open
\* Short position whenever price <= take_profit_price.
C16_FixedTakeProfit ==
    [][(last'.op = "should_close" /\ pos.state = Open /\ AtTakeProfitLine(pos, quote'))
         => last'.ret = "TakeProfit"]_vars

\* C16 as amended: for an Open position with a take-profit price,
\* should_close(price) at a price at or past the take-profit line records the
\* price in the trailing extreme (peak >= price for Long, trough <= price for
\* Short) and returns TakeProfit exactly when the trailing stop is triggered at
\* that price; the first such poll of a position whose take-profit price is
\* beyond its entry price does not return TakeProfit.
C16_TakeProfitLineStartsTrailing ==
    [][(last'.op = "should_close" /\ pos.state = Open /\ AtTakeProfitLine(pos, quote'))
         => /\ IsSome(pos'.trailing_peak_price)
            /\ IF pos.position_type = "Long"
               THEN Unwrap(pos'.trailing_peak_price) >= quote'
               ELSE Unwrap(pos'.trailing_peak_price) <= quote'
            /\ last'.ret = "TakeProfit" <=> TrailingStopHit(pos', quote')
            /\ (~IsSome(pos.trailing_peak_price) /\ TakeProfitBeyondEntry(pos))
                => last'.ret # "TakeProfit"]_vars

\* the first poll past the take-profit line recorded the peak and took nothing
C16_Witness ==
    /\ last.op = "should_close"
    /\ last.ret = "None"
    /\ pos.state = Open
    /\ pos.position_type = "Long"
    /\ TakeProfitBeyondEntry(pos)
    /\ quote > Unwrap(pos.take_profit_price)
    /\ pos.trailing_peak_price = Some(quote)

\* the position of the scenario: Long, 100 units bought at 10.0, take-profit
\* 12.0, cut-loss 9.0
Scenario(p) ==
    /\ p.state = Open
    /\ p.position_type = "Long"
    /\ p.amount = Dec(100)
    /\ p.average_open_price = Dec(10)
    /\ p.take_profit_price = Some(Dec(12))
    /\ p.cut_loss_price = Some(Dec(9))

\* C17: the position of the scenario returns None from should_close(12.5)
\* while recording peak = 12.5, which puts the stop price at 12.5 x 0.90 =
\* 11.25, and then returns TakeProfit from should_close(11.2).
C17_TrailingScenario ==
    [][(last'.op = "should_close" /\ Scenario(pos))
         => /\ (pos.trailing_peak_price = None /\ quote' = Tenths(125))
                => /\ last'.ret = "None"
                   /\ pos'.trailing_peak_price = Some(Tenths(125))
                   /\ Dec(1) - TrailingRatio(pos') = Tenths(9)
                   /\ StopPrice(pos') = Dec(1125) \div 100
            /\ (pos.trailing_peak_price = Some(Tenths(125)) /\ quote' = Tenths(112))
                => /\ last'.ret = "TakeProfit"
                   /\ pos'.trailing_peak_price = Some(Tenths(125))]_vars

\* the scenario has run to its end: polled at 11.2 under the peak of 12.5
C17_Witness ==
    /\ Scenario(pos)
    /\ last.op = "should_close"
    /\ last.ret = "TakeProfit"
    /\ quote = Tenths(112)
    /\ pos.trailing_peak_price = Some(Tenths(125))

\* C18: should_open_expired(price) is true exactly when the state is Open, the
\* tick counter is strictly greater than max_holding_tick_count, the price has
\* not reached the take-profit line (or none is set) and the trailing stop is
\* not triggered at that price; it is never true at a price for which
\* should_close returns TakeProfit, and never true in Opening, Closing or
\* Closed.
C18_Expiry ==
    [][last'.op = "should_open_expired"
         => /\ last'.ret = "true"
                <=> /\ pos.state = Open
                    /\ pos.tick_count > pos.max_holding_tick_count
                    /\ ~AtTakeProfitLine(pos, quote')
                    /\ ~TrailingStopHit(pos, quote')
            /\ last'.ret = "true" => should_close(pos, quote').ret # "TakeProfit"
            /\ pos.state.kind \in {"Opening", "Closing", "Closed"}
                => last'.ret = "false"]_vars

\* an overdue position was not expired at a price that triggers its trailing
\* stop below the take-profit line
C18_Witness ==
    /\ last.op = "should_open_expired"
    /\ last.ret = "false"
    /\ pos.state = Open
    /\ pos.tick_count > pos.max_holding_tick_count
    /\ ~AtTakeProfitLine(pos, quote)
    /\ TrailingStopHit(pos, quote)

\* C19: in Opening, Closing and Closed should_close(price) returns None at
\* every price and leaves the trailing extreme, like the rest of the position,
\* unchanged, whatever thresholds are set.
C19_RiskOnlyWhileOpen ==
    [][(last'.op = "should_close" /\ pos.state.kind \in {"Opening", "Closing", "Closed"})
         => /\ last'.ret = "None"
            /\ pos'.trailing_peak_price = pos.trailing_peak_price
            /\ pos' = pos]_vars

\* a partially filled opening order with thresholds was polled and recorded
\* no extreme
C19_Witness ==
    /\ last.op = "should_close"
    /\ last.from = "Opening"
    /\ last.ret = "None"
    /\ pos.state = Opening
    /\ pos.amount # 0
    /\ IsSome(pos.take_profit_price)
    /\ IsSome(pos.cut_loss_price)
    /\ pos.trailing_peak_price = None

\* C20: on_liquidated with do_liquidate = false on a position that is not in
\* Closing (Opening, Open or Closed) returns Err and leaves the position
\* unchanged, its cumulative fee and its realized pnl included.
C20_LiquidatedErrChangesNothing ==
    [][(last'.op = "on_liquidated" /\ last'.upd # "Liquidate"
          /\ pos.state.kind \in {"Opening", "Open", "Closed"})
         => /\ last'.ret = "Err"
            /\ pos'.fee = pos.fee
            /\ pos'.pnl = pos.pnl
            /\ pos' = pos]_vars

----------------------------------------------------------------------------
(* Claims on the held amount, the extreme across sides and the fees *)

\* C21: request_close moves a position to Closing only when it holds a
\* non-zero amount: a request_close call that returns Ok is never made on a
\* position with amount = 0, so no Closing state with amount = 0 is reached.
C21_ClosingHoldsAmount ==
    [][/\ (last'.op = "request_close" /\ last'.ret = "Ok") => pos.amount # 0
       /\ pos'.state.kind = "Closing" => pos'.amount # 0]_vars

\* C22: the trailing extreme is recorded only by a should_close call that sees
\* a price at or past the take-profit line of the side the position has, and
\* it belongs to that side: an extreme recorded while Long is not carried over
\* as the trough when an inverting fill turns the position Short (nor a trough
\* as the peak).
C22_ExtremeOfCurrentSide ==
    [][/\ pos'.trailing_peak_price # pos.trailing_peak_price
            => /\ last'.op = "should_close"
               /\ pos.state = Open
               /\ pos'.position_type = pos.position_type
               /\ \E cp \in Prices :
                      /\ AtTakeProfitLine(pos, cp)
                      /\ pos' = should_close(pos, cp).pos
       /\ pos'.position_type # pos.position_type
            => pos'.trailing_peak_price = None]_vars

\* C23: a counter-side fill strictly smaller than |amount| leaves
\* average_open_price, take_profit_price, cut_loss_price and the side
\* unchanged, does not close the position, reduces |amount| by the fill amount
\* and increases pnl by exactly (fill price - average_open_price) x
\* (prior amount - new amount); the fill deducts no fee from pnl.
C23_PartialDecrease ==
    [][(/\ hist' # hist
        /\ hist'[Len(hist')].position_type # pos.position_type
        /\ hist'[Len(hist')].amount < Abs(pos.amount))
         => LET f == hist'[Len(hist')]
            IN  /\ pos'.average_open_price = pos.average_open_price
                /\ pos'.take_profit_price = pos.take_profit_price
                /\ pos'.cut_loss_price = pos.cut_loss_price
                /\ pos'.position_type = pos.position_type
                /\ pos'.state.kind # "Closed"
                /\ Abs(pos'.amount) = Abs(pos.amount) - f.amount
                /\ pos'.pnl - pos.pnl =
                       Mul(f.filled_price - pos.average_open_price,
                           pos.amount - pos'.amount)]_vars

\* a fill with thresholds of its own has reduced a position that keeps its
\* thresholds and has realized a gain, with fees paid
C23_Witness ==
    /\ last.upd = "Decreased"
    /\ hist[Len(hist)].take_profit_price # None
    /\ pos.take_profit_price # None
    /\ pos.take_profit_price # hist[Len(hist)].take_profit_price
    /\ pos.cut_loss_price # None
    /\ pos.pnl # 0
    /\ pos.fee > 0

\* the timeout of the order pending in the state of p
PendingTimeout(p) ==
    IF p.state.kind = "Opening" THEN p.entry_timeout_tick_count
    ELSE p.exit_timeout_tick_count

\* C24: should_cancel_order() is true exactly when the state is Opening and
\* the tick counter is above entry_timeout_tick_count, or the state is Closing
\* and the tick counter is above exit_timeout_tick_count; the tick counter is
\* reset to 0 on entering Open from Opening and on entering Closing; so a
\* position that stays in Opening or Closing while update_counter is called
\* once per tick eventually reports true, after exactly timeout + 1 ticks from
\* entering that state, and keeps reporting true until its state changes.
C24_OrderTimeout ==
    /\ [](last.op = "should_cancel_order"
            => (last.ret = "true"
                  <=> \/ pos.state.kind = "Opening"
                          /\ pos.tick_count > pos.entry_timeout_tick_count
                      \/ pos.state.kind = "Closing"
                          /\ pos.tick_count > pos.exit_timeout_tick_count))
    /\ [][/\ (pos.state.kind = "Opening" /\ pos'.state.kind = "Open")
               => pos'.tick_count = 0
          /\ (pos.state.kind # "Closing" /\ pos'.state.kind = "Closing")
               => pos'.tick_count = 0
          /\ (should_cancel_order(pos) /\ pos'.state = pos.state)
               => should_cancel_order(pos')]_vars
    /\ [](OrderPending(pos)
            => (should_cancel_order(pos) <=> waited >= PendingTimeout(pos) + 1))
    /\ \A k \in {"Opening", "Closing"} :
           (pos.state.kind = k) ~> (pos.state.kind # k \/ should_cancel_order(pos))

\* a close order placed after a fill has just timed out, on the tick after its
\* exit timeout, under timeouts that differ
C24_Witness ==
    /\ last.op = "should_cancel_order"
    /\ last.ret = "true"
    /\ pos.state.kind = "Closing"
    /\ nfills > 0
    /\ pos.exit_timeout_tick_count > pos.entry_timeout_tick_count
    /\ waited = pos.exit_timeout_tick_count + 1

\* C25: the same-state assertion of update_state is never violated: no
\* sequence of on_filled, on_liquidated, request_close, cancel and ignore asks
\* for a transition to the state the position is in, reason included, so no
\* call aborts on it.
C25_NoSameStateTransition ==
    last.op \in {"on_filled", "on_liquidated", "request_close", "cancel", "ignore"}
        => last.ret # "Panic"

\* C26: whenever a position reaches Closed after receiving at least one fill,
\* the cumulative fee has been deducted from its realized pnl exactly once and
\* close_price is the price it was closed at; also when a counter-side fill
\* nets the amount to zero while the position is still Opening.
C26_ClosedNetOfFees ==
    (pos.state.kind = "Closed" /\ hist # <<>>)
        => /\ pos.pnl + FeeSum(hist) = RealizedSum(hist)
           /\ pos.fee = FeeSum(hist)
           /\ pos.close_price = hist[Len(hist)].filled_price

\* C27: in every reachable state where the position is Open its amount is
\* non-zero: no sequence of on_filled, request_close, cancel and on_liquidated
\* calls produces an Open position holding nothing.
C27_OpenHoldsAmount ==
    pos.state.kind = "Open" => pos.amount # 0

====
